---- MODULE Spec2Model ----
(***************************************************************************)
(* Model of generate_kubectl_manifests.py: the generator of the scoop      *)
(* manifests kubectl.json and kubectl<major.minor>.json.                   *)
(*                                                                         *)
(* Strings are sequences of tokens.  Version text is modelled character    *)
(* by character (every digit, "." and "-" is its own token), so that       *)
(* split, strip, startswith and int() are computed as Python computes      *)
(* them; fixed fragments of URLs and file names are single tokens.         *)
(* Python values that reach json are tagged: Str, List, Dict.              *)
(***************************************************************************)
EXTENDS Integers, Sequences, FiniteSets, TLC

(***************************************************************************)
(* Bounds of the model.                                                    *)
(***************************************************************************)
\* The GitHub tag listing has at most this many non-empty pages.
MaxServerPages == 11

(***************************************************************************)
(* Configuration (lines 6-25).                                             *)
(***************************************************************************)
FEATURE_VERSIONS ==
    << <<"1", ".", "2", "0">>, <<"1", ".", "2", "1">>, <<"1", ".", "2", "2">> >>

\* An ordered dict is a sequence of <<key, value>> pairs in insertion order.
ARCHS_BASE == << <<"64bit", "amd64">>, <<"32bit", "386">> >>

ARM64_START_VERSION == <<1, 21, 0>>

CONVERT_START_VERSION == <<1, 22, 0>>

LATEST_VERSION_FILE == <<"kubectl.json">>

\* The page cap of fetch_github_tags_for_version.
MaxPages == 10

(***************************************************************************)
(* Python string primitives.                                               *)
(***************************************************************************)
Digits == <<"0", "1", "2", "3", "4", "5", "6", "7", "8", "9">>

IsDigit(c) == \E d \in 1..10 : Digits[d] = c

DigitVal(c) == (CHOOSE d \in 1..10 : Digits[d] = c) - 1

Whitespace == {" ", "\n"}

RECURSIVE LStripSet(_, _)
\* s.lstrip(chars): drop every leading token that is in chars
LStripSet(s, chars) ==
    IF s # <<>> /\ Head(s) \in chars THEN LStripSet(Tail(s), chars) ELSE s

RECURSIVE RStripSet(_, _)
RStripSet(s, chars) ==
    IF s # <<>> /\ s[Len(s)] \in chars
    THEN RStripSet(SubSeq(s, 1, Len(s) - 1), chars)
    ELSE s

\* s.strip()
Strip(s) == RStripSet(LStripSet(s, Whitespace), Whitespace)

RECURSIVE SplitOn(_, _)
\* s.split(sep) for a one-character separator: always at least one piece
SplitOn(s, sep) ==
    IF \E i \in 1..Len(s) : s[i] = sep
    THEN LET i == CHOOSE k \in 1..Len(s) :
                      s[k] = sep /\ \A j \in 1..(k - 1) : s[j] # sep
         IN  <<SubSeq(s, 1, i - 1)>> \o SplitOn(SubSeq(s, i + 1, Len(s)), sep)
    ELSE <<s>>

RECURSIVE SplitWs(_)
\* s.split(): the whitespace-separated words, no empty piece
SplitWs(s) ==
    LET t == LStripSet(s, Whitespace)
    IN  IF t = <<>> THEN <<>>
        ELSE IF \E i \in 1..Len(t) : t[i] \in Whitespace
             THEN LET i == CHOOSE k \in 1..Len(t) :
                      t[k] \in Whitespace /\ \A j \in 1..(k - 1) : t[j] \notin Whitespace
                  IN  <<SubSeq(t, 1, i - 1)>> \o SplitWs(SubSeq(t, i + 1, Len(t)))
             ELSE <<t>>

\* s.startswith(p)
StartsWith(s, p) == Len(s) >= Len(p) /\ SubSeq(s, 1, Len(p)) = p

RECURSIVE ToInt(_)
\* int(s) for a non-empty string of decimal digits
ToInt(s) ==
    IF Len(s) = 1 THEN DigitVal(s[1])
    ELSE 10 * ToInt(SubSeq(s, 1, Len(s) - 1)) + DigitVal(s[Len(s)])

\* int(s) raises ValueError unless s is a string of digits
IntOK(s) == s # <<>> /\ \A i \in 1..Len(s) : IsDigit(s[i])

RECURSIVE TupleGE(_, _)
\* a >= b for Python tuples of integers: lexicographic, a proper prefix is smaller
TupleGE(a, b) ==
    IF b = <<>> THEN TRUE
    ELSE IF a = <<>> THEN FALSE
    ELSE IF Head(a) # Head(b) THEN Head(a) > Head(b)
    ELSE TupleGE(Tail(a), Tail(b))

(***************************************************************************)
(* parse_version, need_convert, archs_for_version (lines 27-40).           *)
(***************************************************************************)
\* the pieces int() is mapped over
VersionPieces(version_str) == SplitOn(SplitOn(version_str, "-")[1], ".")

\* parse_version returns (no ValueError)
ParseOK(version_str) ==
    \A i \in 1..Len(VersionPieces(version_str)) : IntOK(VersionPieces(version_str)[i])

\* parse_version as its docstring has it: the number of the suffix is a fourth component
parse_version_with_rc(version_str) ==
    LET flat == [k \in 1..Len(version_str) |->
                    IF version_str[k] = "-" THEN "." ELSE version_str[k]]
        pieces == SelectSeq(SplitOn(flat, "."), IntOK)
    IN  [i \in 1..Len(pieces) |-> ToInt(pieces[i])]

parse_version(version_str) ==
    LET base_version == SplitOn(version_str, "-")[1]
        pieces == SplitOn(base_version, ".")
    IN  [i \in 1..Len(pieces) |-> ToInt(pieces[i])]

\* need_convert with the threshold of arm64
need_convert_arm64(version) == TupleGE(parse_version(version), ARM64_START_VERSION)

need_convert(version) == TupleGE(parse_version(version), CONVERT_START_VERSION)

\* archs_for_version with > for >=
archs_for_version_strict(version) ==
    IF /\ TupleGE(parse_version(version), ARM64_START_VERSION)
       /\ parse_version(version) # ARM64_START_VERSION
    THEN ARCHS_BASE \o << <<"arm64", "arm64">> >>
    ELSE ARCHS_BASE

archs_for_version(version) ==
    IF TupleGE(parse_version(version), ARM64_START_VERSION)
    THEN ARCHS_BASE \o << <<"arm64", "arm64">> >>
    ELSE ARCHS_BASE

(***************************************************************************)
(* Python values handed to json, and the JSON text json.dumps produces.    *)
(* A dict keeps its items in insertion order and compares by content.      *)
(***************************************************************************)
Str(s) == [t |-> "str", v |-> s]

List(xs) == [t |-> "list", v |-> xs]

Dict(items) == [t |-> "dict", v |-> items]

Keys(d) == {d.v[i][1] : i \in 1..Len(d.v)}

\* d[k]
Get(d, k) == d.v[CHOOSE i \in 1..Len(d.v) : d.v[i][1] = k][2]

RECURSIVE PyEq(_, _)
\* a == b
PyEq(a, b) ==
    IF a.t # b.t THEN FALSE
    ELSE IF a.t = "str" THEN a.v = b.v
    ELSE IF a.t = "dict"
         THEN Keys(a) = Keys(b) /\ \A k \in Keys(a) : PyEq(Get(a, k), Get(b, k))
    ELSE Len(a.v) = Len(b.v) /\ \A i \in 1..Len(a.v) : PyEq(a.v[i], b.v[i])

RECURSIVE Dumps(_)
\* json.dumps: a dict becomes an object, a list an array
Dumps(x) ==
    IF x.t = "str" THEN [t |-> "string", v |-> x.v]
    ELSE IF x.t = "dict"
         THEN [t |-> "object",
               v |-> [i \in 1..Len(x.v) |-> <<x.v[i][1], Dumps(x.v[i][2])>>]]
    ELSE [t |-> "array", v |-> [i \in 1..Len(x.v) |-> Dumps(x.v[i])]]

RECURSIVE Loads(_)
\* json.loads: an object becomes a dict, an array a list
Loads(j) ==
    IF j.t = "string" THEN Str(j.v)
    ELSE IF j.t = "object"
         THEN Dict([i \in 1..Len(j.v) |-> <<j.v[i][1], Loads(j.v[i][2])>>])
    ELSE List([i \in 1..Len(j.v) |-> Loads(j.v[i])])

(***************************************************************************)
(* The servers: what dl.k8s.io and api.github.com can answer.              *)
(***************************************************************************)
\* str(n) for 0 <= n <= 99
IntStr(n) == IF n < 10 THEN <<Digits[n + 1]>>
             ELSE <<Digits[(n \div 10) + 1], Digits[(n % 10) + 1]>>

RC1 == <<"-", "r", "c", ".", "1">>

Suffixes == {<<>>, RC1}

\* the text of the version with numeric triple tr and pre-release suffix sfx
Fmt(tr, sfx) ==
    IntStr(tr[1]) \o <<".">> \o IntStr(tr[2]) \o <<".">> \o IntStr(tr[3]) \o sfx

\* the numeric triples the model publishes, on both sides of both thresholds
Triples ==
    {<<1, 2, 7>>, <<1, 9, 9>>, <<1, 19, 3>>, <<1, 20, 9>>, <<1, 20, 15>>, <<1, 21, 0>>,
     <<1, 21, 9>>, <<1, 21, 10>>, <<1, 22, 0>>, <<1, 22, 3>>, <<1, 23, 0>>, <<2, 0, 0>>}

\* the body of a stable*.txt file: "v<version>\n"
StableBody(v) == <<"v">> \o v \o <<"\n">>

\* what stable.txt can name
LatestVersions == {Fmt(<<1, 9, 9>>, <<>>), Fmt(<<1, 21, 0>>, <<>>), Fmt(<<2, 0, 0>>, <<>>)}

\* what stable-<line>.txt names for the i-th feature line
StableOfLine(i) ==
    Fmt(<< <<1, 20, 15>>, <<1, 21, 10>>, <<1, 22, 3>> >>[i], <<>>)

\* the tag names of the p-th page of the GitHub listing
GitHubPage(p) ==
    << << <<"v">> \o Fmt(<<1, 22, 0>>, RC1), <<"v">> \o Fmt(<<1, 22, 0>>, <<>>),
          <<"v">> \o Fmt(<<1, 21, 9>>, <<>>), <<"v">> \o Fmt(<<1, 20, 9>>, <<>>) >>,
       << <<"v">> \o Fmt(<<1, 21, 10>>, <<>>), <<"v">> \o Fmt(<<1, 20, 15>>, <<>>),
          <<"v">> \o Fmt(<<1, 22, 3>>, <<>>), <<"v">> \o Fmt(<<1, 2, 7>>, <<>>) >>,
       << <<"v">> \o Fmt(<<1, 23, 0>>, <<>>), <<"v">> \o Fmt(<<1, 19, 3>>, RC1) >>
    >>[((p - 1) % 3) + 1]

\* the body of a .sha256 file: "<hash> <filename>\n"
ShaBody(version, folder) ==
    <<"9f2c", " ", "kubernetes-client-windows-", folder, ".tar.gz", "\n">>

\* how one HTTP GET ends: a body, a non-2xx status (raise_for_status raises
\* aiohttp.ClientResponseError), or a timeout (asyncio.TimeoutError)
Outcomes == {"ok", "http", "timeout"}

ArchNames == {"64bit", "32bit", "arm64"}

AllOk == [a \in ArchNames |-> "ok"]

\* how the checksum fetches of one generate_manifest_dict call can end
ShaPatterns ==
    {AllOk,
     [AllOk EXCEPT !["32bit"] = "http"],
     [a \in ArchNames |-> "http"],
     [AllOk EXCEPT !["64bit"] = "timeout"],
     [AllOk EXCEPT !["32bit"] = "timeout"]}

(***************************************************************************)
(* fetch_version_file, fetch_sha256 (lines 48-58): what they return for a  *)
(* response body.                                                          *)
(***************************************************************************)
fetch_version_file(text) == LStripSet(Strip(text), {"v"})

fetch_sha256(txt) == SplitWs(Strip(txt))[1]

(***************************************************************************)
(* get_latest_feature_version_from_github (lines 88-99).                   *)
(***************************************************************************)
\* the tag names of one page that fetch_github_tags_for_version keeps
MatchingTags(data, major_minor) ==
    LET names == [i \in 1..Len(data) |-> LStripSet(data[i], {"v"})]
    IN  SelectSeq(names, LAMBDA n : StartsWith(n, major_minor \o <<".">>))

RECURSIVE InsertDesc(_, _)
\* insert x behind every element whose key is not smaller: a stable descending sort
InsertDesc(sorted, x) ==
    IF sorted = <<>> THEN <<x>>
    ELSE IF TupleGE(parse_version(Head(sorted)), parse_version(x))
         THEN <<Head(sorted)>> \o InsertDesc(Tail(sorted), x)
    ELSE <<x>> \o sorted

RECURSIVE SortDesc(_)
\* matching_versions.sort(key=parse_version, reverse=True)
SortDesc(xs) ==
    IF xs = <<>> THEN <<>>
    ELSE InsertDesc(SortDesc(SubSeq(xs, 1, Len(xs) - 1)), xs[Len(xs)])

\* the sort without reverse=True: the first element is the smallest
latest_of_tags_ascending(matching_versions) ==
    SortDesc(matching_versions)[Len(matching_versions)]

\* the version returned for a non-empty list of matching tags
latest_of_tags(matching_versions) == SortDesc(matching_versions)[1]

(***************************************************************************)
(* generate_manifest_dict (lines 102-148).  out[arch_name] is how the      *)
(* checksum fetch of that architecture ends.                               *)
(***************************************************************************)
Bins(version) ==
    IF need_convert(version) THEN <<"kubectl.exe", "kubectl-convert.exe">>
    ELSE <<"kubectl.exe">>

DownloadUrl(version, folder) ==
    <<"https://dl.k8s.io/release/v">> \o version
        \o <<"/kubernetes-client-windows-", folder, ".tar.gz">>

RECURSIVE ArchLoop(_, _, _, _)
\* lines 110-120: the loop from the i-th architecture on, arch_dict so far
ArchLoop(version, arches, out, acc) ==
    IF arches = <<>> THEN [exc |-> "none", arch_dict |-> acc]
    ELSE LET arch_name == Head(arches)[1]
             folder == Head(arches)[2]
         IN  IF out[arch_name] = "timeout"
             THEN [exc |-> "TimeoutError", arch_dict |-> acc]
             ELSE IF out[arch_name] = "http"
             THEN ArchLoop(version, Tail(arches), out, acc)
             ELSE ArchLoop(version, Tail(arches), out,
                      Append(acc,
                          <<arch_name,
                            Dict(<< <<"url", Str(DownloadUrl(version, folder))>>,
                                    <<"hash", Str(fetch_sha256(ShaBody(version, folder)))>> >>)>>))

\* autoupdate for every architecture of the version, fetched or not
AutoupdateArches_all(arches, arch_dict) ==
    [k \in 1..Len(arches) |->
        <<arches[k][1],
          Dict(<< <<"url", Str(<<"https://dl.k8s.io/release/v$version/kubernetes-client-windows-",
                                 arches[k][2], ".tar.gz">>)>> >>)>>]

\* lines 123-129
AutoupdateArches(arches, arch_dict) ==
    LET kept == SelectSeq(arches, LAMBDA a : \E i \in 1..Len(arch_dict) : arch_dict[i][1] = a[1])
    IN  [i \in 1..Len(kept) |->
            <<kept[i][1],
              Dict(<< <<"url", Str(<<"https://dl.k8s.io/release/v$version/kubernetes-client-windows-",
                                     kept[i][2], ".tar.gz">>)>> >>)>>]

\* lines 131-147
ManifestRecord(version, bins, arch_dict, autoupdate_arches) ==
    Dict(<< <<"version", Str(version)>>,
            <<"description", Str(<<"Control the Kubernetes cluster manager.">>)>>,
            <<"homepage", Str(<<"https://kubernetes.io/docs/reference/kubectl/">>)>>,
            <<"license", Str(<<"Apache-2.0">>)>>,
            <<"architecture", Dict(arch_dict)>>,
            <<"extract_dir", Str(<<"kubernetes/client">>)>>,
            <<"bin", List([i \in 1..Len(bins) |-> Str(<<"bin\\", bins[i]>>)])>>,
            <<"checkver", Dict(<< <<"url", Str(<<"https://dl.k8s.io/release/stable.txt">>)>>,
                                  <<"regex", Str(<<"v([\\d.]+)">>)>> >>)>>,
            <<"autoupdate", Dict(<< <<"architecture", Dict(autoupdate_arches)>>,
                                    <<"hash", Dict(<< <<"url", Str(<<"$url.sha256">>)>> >>)>> >>)>> >>)

NoManifest == [t |-> "none"]

\* the call: exc = "none" and the manifest returned, or the exception raised
generate_manifest_dict(version, out) ==
    LET arches == archs_for_version(version)
        loop == ArchLoop(version, arches, out, <<>>)
    IN  IF loop.exc # "none" THEN [exc |-> loop.exc, manifest |-> NoManifest]
        ELSE [exc |-> "none",
              manifest |-> ManifestRecord(version, Bins(version), loop.arch_dict,
                                          AutoupdateArches(arches, loop.arch_dict))]

(***************************************************************************)
(* write_manifest (lines 150-157) on a disk: file name -> JSON text.       *)
(***************************************************************************)
Absent == [t |-> "absent"]

FeatureFile(major_minor) == <<"kubectl">> \o major_minor \o <<".json">>

Files == {LATEST_VERSION_FILE} \cup {FeatureFile(FEATURE_VERSIONS[i]) : i \in 1..Len(FEATURE_VERSIONS)}

\* write_manifest comparing the text of the file, not its parsed content, with the dict
write_manifest_text(manifest, filename, d) ==
    [disk |-> [d EXCEPT ![filename] = Dumps(manifest)], report |-> "OK"]

\* the file is left alone: it exists and its parsed content equals the manifest
Unchanged(manifest, filename, d) ==
    d[filename] # Absent /\ PyEq(Loads(d[filename]), manifest)

write_manifest(manifest, filename, d) ==
    IF Unchanged(manifest, filename, d)
    THEN [disk |-> d, report |-> "SKIP"]
    ELSE [disk |-> [d EXCEPT ![filename] = Dumps(manifest)], report |-> "OK"]

(***************************************************************************)
(* main (lines 159-191).                                                   *)
(***************************************************************************)
VARIABLES
    pc,              \* the statement main is at; "done" once main has ended
    exc,             \* the exception that ended main, "none" otherwise
    latest_version,  \* line 162
    latest_manifest, \* line 164
    i,               \* index of major_minor in FEATURE_VERSIONS, 0 before the loop
    stable_res,      \* how the stable-<line>.txt fetch of this iteration ended
    latest_feature,  \* lines 171, 176
    page,            \* fetch_github_tags_for_version: page
    tags,            \* fetch_github_tags_for_version: tags
    manifest,        \* line 183; the argument of the last write_manifest call
    gen,             \* the last generate_manifest_dict call: version, fetches, arches, exc
    disk,            \* the bucket directory: file name -> JSON text, or Absent
    filename,        \* the file of the last write_manifest call
    log,             \* the last line main or write_manifest printed
    w_calls          \* SpecW only: the calls its driver has made, oldest first

vars == <<pc, exc, latest_version, latest_manifest, i, stable_res, latest_feature,
          page, tags, manifest, gen, disk, filename, log, w_calls>>

NoVersion == <<>>

NoCall == [version |-> NoVersion, sha |-> <<>>, arches |-> <<>>, exc |-> "none"]

NoFile == <<>>

\* the manifest of a version all of whose checksums were fetched
FullManifest(version) == generate_manifest_dict(version, AllOk).manifest

\* the bucket directory a run can find: empty, or as an earlier run left it
EarlierDisk ==
    [f \in Files |->
        IF f = LATEST_VERSION_FILE THEN Dumps(FullManifest(Fmt(<<2, 0, 0>>, <<>>)))
        ELSE LET k == CHOOSE j \in 1..Len(FEATURE_VERSIONS) : f = FeatureFile(FEATURE_VERSIONS[j])
             IN  Dumps(FullManifest(StableOfLine(k)))]

InitDisks == {[f \in Files |-> Absent], EarlierDisk}

Init ==
    /\ pc = "fetch_latest"
    /\ exc = "none"
    /\ latest_version = NoVersion
    /\ latest_manifest = NoManifest
    /\ i = 0
    /\ stable_res = "none"
    /\ latest_feature = NoVersion
    /\ page = 0
    /\ tags = <<>>
    /\ manifest = NoManifest
    /\ gen = NoCall
    /\ disk \in InitDisks
    /\ filename = NoFile
    /\ log = "none"
    /\ w_calls = <<>>

\* the checksum fetches a call makes: none after the one that times out
Reached(arches, raw) ==
    [k \in 1..Len(arches) |->
        IF \E j \in 1..(k - 1) : raw[arches[j][1]] = "timeout" THEN "unreached"
        ELSE raw[arches[k][1]]]

\* out[arch_name] of the fetches made
ShaOf(arches, sha) ==
    [a \in {arches[k][1] : k \in 1..Len(arches)} |->
        sha[CHOOSE k \in 1..Len(arches) : arches[k][1] = a]]

\* the record of a generate_manifest_dict call
GenCall(version, raw) ==
    LET arches == archs_for_version(version)
        sha == Reached(arches, raw)
    IN  [version |-> version, sha |-> sha, arches |-> arches,
         exc |-> generate_manifest_dict(version, ShaOf(arches, sha)).exc]

GenManifest(call) ==
    generate_manifest_dict(call.version, ShaOf(call.arches, call.sha)).manifest

\* an exception leaves main: the run ends
Raise(e) == pc' = "done" /\ exc' = e

\* the for statement of line 168 takes the next major_minor, or the loop ends; the
\* locals of the iteration that ended are assigned again before they are read
NextLine ==
    /\ pc' = IF i < Len(FEATURE_VERSIONS) THEN "fetch_stable" ELSE "done"
    /\ i' = IF i < Len(FEATURE_VERSIONS) THEN i + 1 ELSE i
    /\ exc' = exc
    /\ stable_res' = "none"
    /\ latest_feature' = NoVersion
    /\ page' = 0
    /\ tags' = <<>>

\* lines 162-163
FetchLatest ==
    /\ pc = "fetch_latest"
    /\ UNCHANGED w_calls
    /\ \E res \in Outcomes :
          IF res = "ok"
          THEN \E v \in LatestVersions :
                  /\ latest_version' = fetch_version_file(StableBody(v))
                  /\ log' = "INFO latest"
                  /\ pc' = "gen_latest"
                  /\ exc' = exc
          ELSE /\ Raise(IF res = "http" THEN "ClientResponseError" ELSE "TimeoutError")
               /\ UNCHANGED <<latest_version, log>>
    /\ UNCHANGED <<latest_manifest, i, stable_res, latest_feature, page, tags, manifest,
                   gen, disk, filename>>

\* line 164
GenLatest ==
    /\ pc = "gen_latest"
    /\ UNCHANGED w_calls
    /\ \E raw \in ShaPatterns :
          LET call == GenCall(latest_version, raw)
          IN  /\ gen' = call
              /\ IF call.exc = "none"
                 THEN /\ latest_manifest' = GenManifest(call)
                      /\ pc' = "write_latest"
                      /\ exc' = exc
                 ELSE /\ Raise(call.exc)
                      /\ UNCHANGED latest_manifest
    /\ UNCHANGED <<latest_version, i, stable_res, latest_feature, page, tags, manifest,
                   disk, filename, log>>

\* line 165, then the first line of the loop
WriteLatest ==
    /\ pc = "write_latest"
    /\ UNCHANGED w_calls
    /\ LET w == write_manifest(latest_manifest, LATEST_VERSION_FILE, disk)
       IN  /\ disk' = w.disk
           /\ log' = w.report
    /\ filename' = LATEST_VERSION_FILE
    /\ NextLine
    /\ UNCHANGED <<latest_version, latest_manifest, manifest, gen>>

\* lines 169-174
FetchStable ==
    /\ pc = "fetch_stable"
    /\ UNCHANGED w_calls
    /\ \E res \in Outcomes :
          /\ stable_res' = res
          /\ IF res = "ok"
             THEN /\ latest_feature' = fetch_version_file(StableBody(StableOfLine(i)))
                  /\ log' = "INFO stable"
                  /\ pc' = "gen_feature"
                  /\ exc' = exc
                  /\ UNCHANGED <<page, tags>>
             ELSE IF res = "http"
             THEN /\ log' = "WARN stable"
                  /\ pc' = "fetch_tags"
                  /\ page' = 1
                  /\ tags' = <<>>
                  /\ exc' = exc
                  /\ UNCHANGED latest_feature
             ELSE /\ Raise("TimeoutError")
                  /\ UNCHANGED <<latest_feature, page, tags, log>>
    \* what the iteration before left in manifest, filename and gen is not read again
    /\ manifest' = NoManifest
    /\ filename' = NoFile
    /\ gen' = NoCall
    /\ UNCHANGED <<latest_version, latest_manifest, i, disk>>

\* lines 92-99 and 176-180, once fetch_github_tags_for_version has returned all
EndOfTags(all) ==
    IF all = <<>>
    THEN \* ValueError, caught at line 178: continue
         /\ log' = "ERROR github ValueError"
         /\ NextLine
    ELSE /\ latest_feature' = latest_of_tags(all)
         /\ log' = "INFO github"
         /\ pc' = "gen_feature"
         /\ tags' = all
         /\ UNCHANGED <<i, exc, stable_res>>

\* one turn of the while loop of lines 67-83
FetchTagsPage ==
    /\ pc = "fetch_tags"
    /\ UNCHANGED w_calls
    /\ \E res \in Outcomes :
          IF res # "ok"
          THEN \* caught at line 178: continue
               /\ log' = IF res = "http" THEN "ERROR github ClientResponseError"
                         ELSE "ERROR github TimeoutError"
               /\ NextLine
          ELSE \E data \in {<<>>} \cup {GitHubPage(p) : p \in {page} \cap (1..MaxServerPages)} :
                  IF data = <<>>
                  THEN /\ EndOfTags(tags)
                       /\ IF tags = <<>> THEN TRUE ELSE page' = page
                  ELSE LET all == tags \o MatchingTags(data, FEATURE_VERSIONS[i])
                       IN  IF page + 1 > MaxPages
                           THEN /\ EndOfTags(all)
                                /\ IF all = <<>> THEN TRUE ELSE page' = page + 1
                           ELSE /\ tags' = all
                                /\ page' = page + 1
                                /\ UNCHANGED <<pc, i, exc, stable_res, latest_feature, log>>
    /\ UNCHANGED <<latest_version, latest_manifest, manifest, gen, disk, filename>>

\* lines 183-187 and 190-191
GenFeature ==
    /\ pc = "gen_feature"
    /\ UNCHANGED w_calls
    /\ \E raw \in ShaPatterns :
          LET call == GenCall(latest_feature, raw)
          IN  /\ gen' = call
              /\ IF call.exc # "none"
                 THEN \* caught at line 190
                      /\ log' = "ERROR generate"
                      /\ NextLine
                      /\ UNCHANGED manifest
                 ELSE /\ manifest' = GenManifest(call)
                      /\ IF Keys(Get(GenManifest(call), "architecture")) = {}
                         THEN /\ log' = "WARN no architectures"
                              /\ NextLine
                         ELSE /\ pc' = "write_feature"
                              /\ UNCHANGED <<i, exc, stable_res, latest_feature, page, tags, log>>
    /\ UNCHANGED <<latest_version, latest_manifest, disk, filename>>

\* lines 188-189
WriteFeature ==
    /\ pc = "write_feature"
    /\ UNCHANGED w_calls
    /\ LET w == write_manifest(manifest, FeatureFile(FEATURE_VERSIONS[i]), disk)
       IN  /\ disk' = w.disk
           /\ log' = w.report
    /\ filename' = FeatureFile(FEATURE_VERSIONS[i])
    /\ NextLine
    /\ UNCHANGED <<latest_version, latest_manifest, manifest, gen>>

Next ==
    \/ FetchLatest
    \/ GenLatest
    \/ WriteLatest
    \/ FetchStable
    \/ FetchTagsPage
    \/ GenFeature
    \/ WriteFeature

Spec == Init /\ [][Next]_vars

(***************************************************************************)
(* A driver of write_manifest: it calls write_manifest MaxCalls times on   *)
(* a bucket directory that holds earlier manifests, with manifests that    *)
(* generate_manifest_dict returns.                                         *)
(***************************************************************************)
MaxCalls == 3

WManifests ==
    {generate_manifest_dict(Fmt(<<1, 21, 0>>, <<>>), sha).manifest :
        sha \in {AllOk, [AllOk EXCEPT !["32bit"] = "http"], [a \in ArchNames |-> "http"]}}

WFiles == {LATEST_VERSION_FILE, FeatureFile(FEATURE_VERSIONS[2])}

InitW ==
    /\ pc = "write_manifest"
    /\ exc = "none"
    /\ latest_version = NoVersion
    /\ latest_manifest = NoManifest
    /\ i = 0
    /\ stable_res = "none"
    /\ latest_feature = NoVersion
    /\ page = 0
    /\ tags = <<>>
    /\ manifest = NoManifest
    /\ gen = NoCall
    /\ disk \in {d \in [Files -> {Absent} \cup {Dumps(m) : m \in WManifests}] :
                    \A f \in Files \ WFiles : d[f] = Absent}
    /\ filename = NoFile
    /\ log = "none"
    /\ w_calls = <<>>

\* one call write_manifest(m, f)
CallWriteManifest ==
    /\ pc = "write_manifest"
    /\ Len(w_calls) < MaxCalls
    /\ \E m \in WManifests, f \in WFiles :
          LET w == write_manifest(m, f, disk)
          IN  /\ disk' = w.disk
              /\ log' = w.report
              /\ manifest' = m
              /\ filename' = f
              /\ w_calls' = Append(w_calls,
                                [manifest |-> m, filename |-> f, report |-> w.report,
                                 before |-> disk[f], after |-> w.disk[f]])
    /\ UNCHANGED <<pc, exc, latest_version, latest_manifest, i, stable_res, latest_feature,
                   page, tags, gen>>

NextW == CallWriteManifest

SpecW == InitW /\ [][NextW]_vars

(***************************************************************************)
(* What the properties are stated with, apart from the code.               *)
(***************************************************************************)
NLines == Len(FEATURE_VERSIONS)

\* a >= b for numeric triples, in lexicographic integer order
LexGE(a, b) ==
    \/ a[1] > b[1]
    \/ a[1] = b[1] /\ a[2] > b[2]
    \/ a[1] = b[1] /\ a[2] = b[2] /\ a[3] >= b[3]

\* v is the text of a triple of Triples, with or without a pre-release suffix
Published(v) == \E tr \in Triples, sfx \in Suffixes : v = Fmt(tr, sfx)

\* the numeric triple v was written from
TripleOf(v) == CHOOSE tr \in Triples : \E sfx \in Suffixes : v = Fmt(tr, sfx)

\* generate_manifest_dict has been called in this iteration (or for the latest version)
Called == gen.version # NoVersion

\* ... and has returned a manifest
Returned == Called /\ gen.exc = "none"

\* the manifest it returned
TheManifest == IF manifest # NoManifest THEN manifest ELSE latest_manifest

\* the architectures whose checksum fetch ended with res
ArchsWith(res) == {gen.arches[k][1] : k \in {j \in 1..Len(gen.arches) : gen.sha[j] = res}}

\* C1: a failed stable-version lookup of one line (a timeout or a non-2xx status, on
\* stable-<line>.txt and then on the GitHub tags) does not keep the run from attempting
\* the other lines: the run never ends at a line whose lookup failed while a later
\* line has not been attempted.
C1_FailedLookupGoesOn ==
    (pc = "done" /\ stable_res \in {"http", "timeout"}) => i = NLines

\* C2: no operation is fatal: when main ends, every line of FEATURE_VERSIONS has been
\* attempted.
C2_EveryLineAttempted == pc = "done" => i = NLines

\* C3: a version none of whose architectures was resolved gets no manifest file
\* written: whenever write_manifest has just written a file, some checksum fetch of
\* the manifest's version had succeeded and the manifest's architecture mapping is
\* not empty.
C3_NoFileWithoutArchitecture ==
    (log = "OK" /\ filename # NoFile) =>
        /\ ArchsWith("ok") # {}
        /\ Keys(Get(Loads(disk[filename]), "architecture")) # {}

\* C4: a checksum fetch that fails, by a timeout or by a non-2xx status, skips only
\* its architecture: generate_manifest_dict still returns a manifest, and its
\* architecture mapping holds exactly the architectures of archs_for_version whose
\* checksum fetch did not fail.
C4_FailedChecksumSkipsOnlyItsArch ==
    (Called /\ \E k \in 1..Len(gen.sha) : gen.sha[k] \in {"http", "timeout"}) =>
        /\ gen.exc = "none"
        /\ Keys(Get(TheManifest, "architecture"))
              = {gen.arches[k][1] : k \in {j \in 1..Len(gen.arches) : gen.sha[j] \notin {"http", "timeout"}}}

\* the k-th call of the driver repeats the call before it
Repeats(k) ==
    /\ w_calls[k].manifest = w_calls[k - 1].manifest
    /\ w_calls[k].filename = w_calls[k - 1].filename

\* the call c wrote the file
Wrote(c) == c.report = "OK"

\* before the call c the file was absent or its content differed from the manifest
Differs(c) == c.before = Absent \/ ~PyEq(Loads(c.before), c.manifest)

ExpectedArchs(tr) ==
    IF LexGE(tr, <<1, 21, 0>>)
    THEN << <<"64bit", "amd64">>, <<"32bit", "386">>, <<"arm64", "arm64">> >>
    ELSE << <<"64bit", "amd64">>, <<"32bit", "386">> >>

\* C6: archs_for_version returns 64bit -> amd64 and 32bit -> 386, and arm64 -> arm64
\* exactly for the versions whose numeric triple is >= (1, 21, 0).
C6_Arm64FromOneTwentyOne ==
    Called =>
        /\ Published(gen.version)
        /\ \A tr \in Triples, sfx \in Suffixes :
              gen.version = Fmt(tr, sfx) => gen.arches = ExpectedArchs(tr)

\* the first version with arm64 has been resolved
C6_Witness ==
    /\ Called
    /\ gen.version = Fmt(<<1, 21, 0>>, <<>>)
    /\ gen.arches[3] = <<"arm64", "arm64">>

\* the bin list the contract gives the triple tr
ExpectedBin(tr) ==
    IF LexGE(tr, <<1, 22, 0>>)
    THEN List(<<Str(<<"bin\\", "kubectl.exe">>), Str(<<"bin\\", "kubectl-convert.exe">>)>>)
    ELSE List(<<Str(<<"bin\\", "kubectl.exe">>)>>)

\* C7: the bin list of a manifest holds bin\kubectl.exe, and bin\kubectl-convert.exe
\* exactly for the versions whose numeric triple is >= (1, 22, 0).
C7_ConvertFromOneTwentyTwo ==
    Returned =>
        /\ Get(TheManifest, "version") = Str(gen.version)
        /\ \A tr \in Triples, sfx \in Suffixes :
              gen.version = Fmt(tr, sfx) => Get(TheManifest, "bin") = ExpectedBin(tr)

\* the manifest of 1.22.3 is about to be written with both binaries
C7_Witness ==
    /\ pc = "write_feature"
    /\ gen.version = Fmt(<<1, 22, 3>>, <<>>)
    /\ Len(Get(manifest, "bin").v) = 2

\* the version strings of the state: the one being processed and the tags collected
VersionsAtHand ==
    {v \in {latest_version, latest_feature, gen.version} : v # NoVersion}
        \cup {tags[k] : k \in 1..Len(tags)}

C9_Fallback ==
    /\ pc = "fetch_tags" => stable_res = "http" /\ page \in 1..MaxPages
    /\ stable_res = "ok" => page = 0 /\ tags = <<>>
    /\ page <= MaxPages + 1
    /\ (pc \in {"gen_feature", "write_feature"} /\ stable_res = "http") =>
          /\ \E k \in 1..Len(tags) : tags[k] = latest_feature
          /\ \A k \in 1..Len(tags) :
                /\ StartsWith(tags[k], FEATURE_VERSIONS[i] \o <<".">>)
                /\ LexGE(TripleOf(latest_feature), TripleOf(tags[k]))
    /\ log = "ERROR github ValueError" =>
          LET line == IF pc = "done" /\ exc = "none" THEN i ELSE i - 1
              f == FeatureFile(FEATURE_VERSIONS[line])
          IN  /\ pc \in {"fetch_stable", "done"}
              /\ \E d \in InitDisks : disk[f] = d[f]

\* the version of line 1.21 was chosen from the tags after all MaxPages pages
C9_Witness ==
    /\ pc = "gen_feature"
    /\ stable_res = "http"
    /\ page = MaxPages + 1
    /\ latest_feature = Fmt(<<1, 21, 10>>, <<>>)
    /\ \E k \in 1..Len(tags) : tags[k] = Fmt(<<1, 21, 9>>, <<>>)

\* C10: a manifest returned by generate_manifest_dict has the same architectures in
\* autoupdate.architecture as in architecture; they are architectures of
\* archs_for_version(version), and none whose checksum fetch was skipped.
C10_AutoupdateMatchesArchitecture ==
    Returned =>
        /\ Keys(Get(Get(TheManifest, "autoupdate"), "architecture"))
              = Keys(Get(TheManifest, "architecture"))
        /\ Keys(Get(TheManifest, "architecture"))
              \subseteq {archs_for_version(gen.version)[k][1] :
                            k \in 1..Len(archs_for_version(gen.version))}
        /\ Keys(Get(TheManifest, "architecture")) \cap ArchsWith("http") = {}
        /\ Keys(Get(Get(TheManifest, "autoupdate"), "architecture")) \cap ArchsWith("http") = {}

\* a manifest was returned with one architecture skipped and the others kept
C10_Witness ==
    /\ Returned
    /\ ArchsWith("http") = {"32bit"}
    /\ Keys(Get(TheManifest, "architecture")) = {"64bit", "arm64"}
    /\ Keys(Get(Get(TheManifest, "autoupdate"), "architecture")) = {"64bit", "arm64"}

====
